---- MODULE Spec2Model ----
(***************************************************************************)
(* The four REST handlers of the credit-scoring dashboard                   *)
(*   POST /api/model/predict     src/app/api/model/predict/route.ts         *)
(*   POST /api/model/train       src/app/api/model/train/route.ts           *)
(*   POST /api/fairness/analyze  src/app/api/fairness/analyze/route.ts and  *)
(*                               its revision (unnamed/part_009)            *)
(*   POST /api/shap/explain      src/app/api/shap/explain/route.ts          *)
(* as a state machine: a client sends a request, the handler answers it.    *)
(*                                                                          *)
(* Units.  Probabilities, contributions and the debtToIncome feature are    *)
(* carried in hundredths (0.25 is 25), riskScore in points, confidence and  *)
(* the simulated training metrics in ten-thousandths, Math.random() in      *)
(* tenths.  Approval rates are exact fractions [num, den].                  *)
(***************************************************************************)
EXTENDS Integers, Sequences, FiniteSets, TLC

VARIABLES phase, endpoint, body, response, earlier, savedModels, predictionResponse,
          page, localStorage, upload, audit

\* the exchange of a client with the API, and the dashboard in a browser
api == <<phase, endpoint, body, response, earlier, savedModels, predictionResponse>>
dashboard == <<page, localStorage, upload, audit>>
vars == <<phase, endpoint, body, response, earlier, savedModels, predictionResponse,
          page, localStorage, upload, audit>>

(***************************************************************************)
(* Bounds of the model.                                                     *)
(***************************************************************************)
MaxDerog == 2        \* derogatory marks range over 0..MaxDerog
MaxRows == 2         \* free-form datasets have at most MaxRows rows
MaxGroup == 5        \* tabulated datasets have 1..MaxGroup rows per group

(***************************************************************************)
(* JSON values as JavaScript sees them.                                     *)
(***************************************************************************)
Undefined == [t |-> "undefined", n |-> 0, s |-> ""]
Null == [t |-> "null", n |-> 0, s |-> ""]
Num(k) == [t |-> "number", n |-> k, s |-> ""]
Str(x) == [t |-> "string", n |-> 0, s |-> x]
Bool(b) == [t |-> "boolean", n |-> IF b THEN 1 ELSE 0, s |-> ""]

\* ToBoolean: undefined, null, 0 and "" are falsy.
Truthy(v) ==
  CASE v.t = "undefined" -> FALSE
    [] v.t = "null" -> FALSE
    [] v.t = "number" -> v.n # 0
    [] v.t = "boolean" -> v.n = 1
    [] OTHER -> v.s # ""

\* ToNumber of undefined is NaN, and every comparison with NaN is false.
\* (No string of the model is read as a number: the numeric fields hold
\* numbers, null or nothing.)
IsNaN(v) == v.t \notin {"number", "null"}
ToNumber(v) == IF v.t = "number" THEN v.n ELSE 0
GE(v, k) == ~IsNaN(v) /\ ToNumber(v) >= k
LE(v, k) == ~IsNaN(v) /\ ToNumber(v) <= k
GT(v, k) == ~IsNaN(v) /\ ToNumber(v) > k
LT(v, k) == ~IsNaN(v) /\ ToNumber(v) < k

\* a / b for non-negative numbers, kept as a fraction; den = 0 stands for
\* Infinity or NaN, with which every comparison below is false.
Div(a, b) ==
  IF IsNaN(a) \/ IsNaN(b) THEN [num |-> 0, den |-> 0]
  ELSE [num |-> ToNumber(a), den |-> ToNumber(b)]
\* r < k/100 and r > k/100
RatioLT(r, k) == r.den > 0 /\ 100 * r.num < k * r.den
RatioGT(r, k) == (r.den > 0 /\ 100 * r.num > k * r.den) \/ (r.den = 0 /\ r.num > 0)

Max(a, b) == IF a >= b THEN a ELSE b
Min(a, b) == IF a <= b THEN a ELSE b

(***************************************************************************)
(* POST /api/model/predict                                                  *)
(***************************************************************************)
\* const { debtToIncome = loanAmount / (income || 1), derogatory = 0 } = features
debtToIncomeOf(features) ==
  IF features.debtToIncome.t = "undefined"
  THEN Div(features.loanAmount,
           IF Truthy(features.income) THEN features.income ELSE Num(1))
  ELSE [num |-> ToNumber(features.debtToIncome), den |-> 100]

derogatoryOf(features) ==
  IF features.derogatory.t = "undefined" THEN Num(0) ELSE features.derogatory

\* One rule of the score: the change of the probability and the reason pushed.
Rule(delta, reason) == [delta |-> delta, reasoning |-> reason]

creditScoreRule(features) ==
  LET creditScore == features.creditScore IN
  CASE GE(creditScore, 750) -> Rule(25, <<"Excellent credit score (750+)">>)
    [] GE(creditScore, 700) -> Rule(18, <<"Good credit score (700-749)">>)
    [] GE(creditScore, 650) -> Rule(10, <<"Fair credit score (650-699)">>)
    [] GE(creditScore, 600) -> Rule(2, <<"Below average credit score (600-649)">>)
    [] OTHER -> Rule(-15, <<"Poor credit score (<600)">>)

incomeRule(features) ==
  LET incomeRatio == Div(features.loanAmount, features.income) IN
  CASE RatioLT(incomeRatio, 200) -> Rule(15, <<"Low loan-to-income ratio">>)
    [] RatioLT(incomeRatio, 300) -> Rule(8, <<"Moderate loan-to-income ratio">>)
    [] RatioLT(incomeRatio, 400) -> Rule(-5, <<"High loan-to-income ratio">>)
    [] OTHER -> Rule(-12, <<"Very high loan-to-income ratio">>)

loanAmountRule(features) ==
  LET loanAmount == features.loanAmount IN
  CASE LT(loanAmount, 25000) -> Rule(10, <<"Small loan amount">>)
    [] LT(loanAmount, 50000) -> Rule(5, <<>>)
    [] GT(loanAmount, 100000) -> Rule(-8, <<"Large loan amount">>)
    [] OTHER -> Rule(0, <<>>)

debtToIncomeRule(features) ==
  LET debtToIncome == debtToIncomeOf(features) IN
  CASE RatioLT(debtToIncome, 30) -> Rule(8, <<"Low debt-to-income ratio">>)
    [] RatioGT(debtToIncome, 50) -> Rule(-10, <<"High debt-to-income ratio">>)
    [] OTHER -> Rule(0, <<>>)

employmentRule(features) ==
  LET employmentLength == features.employmentLength IN
  CASE GE(employmentLength, 5) -> Rule(6, <<"Stable employment history (5+ years)">>)
    [] GE(employmentLength, 2) -> Rule(3, <<>>)
    [] OTHER -> Rule(-4, <<"Short employment history">>)

ageRule(features) ==
  LET age == features.age IN
  CASE GE(age, 35) /\ LE(age, 55) -> Rule(5, <<"Optimal age range for credit">>)
    [] LT(age, 25) -> Rule(-3, <<>>)
    [] OTHER -> Rule(0, <<>>)

homeOwnershipRule(features) ==
  CASE features.homeOwnership = Str("own") -> Rule(4, <<"Home ownership">>)
    [] features.homeOwnership = Str("mortgage") -> Rule(2, <<>>)
    [] OTHER -> Rule(0, <<>>)

derogatoryRule(features) ==
  LET derogatory == derogatoryOf(features) IN
  IF GT(derogatory, 0)
  THEN Rule(-10 * ToNumber(derogatory),
            <<ToString(ToNumber(derogatory)) \o " derogatory mark(s)">>)
  ELSE Rule(0, <<>>)

scoreRules(features) ==
  <<creditScoreRule(features), incomeRule(features), loanAmountRule(features),
    debtToIncomeRule(features), employmentRule(features), ageRule(features),
    homeOwnershipRule(features), derogatoryRule(features)>>

RECURSIVE SumDelta(_)
SumDelta(rules) ==
  IF rules = <<>> THEN 0 ELSE Head(rules).delta + SumDelta(Tail(rules))

RECURSIVE JoinReasons(_)
JoinReasons(rules) ==
  IF rules = <<>> THEN <<>> ELSE Head(rules).reasoning \o JoinReasons(Tail(rules))

\* let probability = 0.5, then every rule in turn
rawProbability(features) == 50 + SumDelta(scoreRules(features))

\* Math.max(0.05, Math.min(0.95, probability))
clampNone(probability) == probability
clampProbability(probability) == Max(5, Min(95, probability))

\* hasAllFeatures ? 0.78 + Math.random() * 0.12 : 0.65
confidenceOf(features, rnd) ==
  IF Truthy(features.creditScore) /\ Truthy(features.income) /\ Truthy(features.loanAmount)
  THEN 7800 + 120 * rnd[1]
  ELSE 6500

\* approved: probability > 0.5
approvedAtHalf(probability) == probability >= 50
approvedOf(probability) == probability > 50

calculateCreditScoreJitter(features, rnd) ==
  LET probability == clampProbability(rawProbability(features) + rnd[1]) IN
  [approved |-> approvedOf(probability),
   probability |-> probability,
   confidence |-> confidenceOf(features, rnd),
   riskScore |-> 100 - probability,
   reasoning |-> JoinReasons(scoreRules(features))]

calculateCreditScore(features, rnd) ==
  LET probability == clampProbability(rawProbability(features)) IN
  [approved |-> approvedOf(probability),
   probability |-> probability,
   confidence |-> confidenceOf(features, rnd),
   riskScore |-> 100 - probability,
   reasoning |-> JoinReasons(scoreRules(features))]

\* the shapValues object built inline by the predict handler
predictShapValues(features) ==
  [creditScore |-> IF GE(features.creditScore, 700) THEN 18 ELSE -12,
   income |-> IF GE(features.income, 60000) THEN 12 ELSE -8,
   loanAmount |-> IF LE(features.loanAmount, 50000) THEN 8 ELSE -10,
   debtToIncome |->
     IF RatioLT(Div(features.loanAmount, features.income), 300) THEN 7 ELSE -9,
   employmentLength |-> IF GE(features.employmentLength, 3) THEN 5 ELSE -3,
   age |-> IF GE(features.age, 30) /\ LE(features.age, 60) THEN 4 ELSE -2,
   homeOwnership |-> IF features.homeOwnership = Str("own") THEN 3 ELSE -1]

\* const features = body.features || body
featuresOf(b) == IF b.hasFeatures THEN b.features ELSE b.top

\* !features.creditScore || !features.income || !features.loanAmount
missingRequired(features) ==
  ~Truthy(features.creditScore) \/ ~Truthy(features.income) \/ ~Truthy(features.loanAmount)

\* the catch block with its { status: 500 } left out: the error goes out as a 200
ServerErrorNoStatus(message) == [status |-> 200, error |-> message]
ServerError(message) == [status |-> 500, error |-> message]
BadRequest(message) == [status |-> 400, error |-> message]

\* request.json() rejects an unparseable body; reading a property of null throws
Throws(b) == b.json \in {"invalid", "null"}

\* { ...prediction, shapValues, modelVersion: '1.0.0', timestamp }
predictionOf(features, rnd, version, ts) ==
  LET prediction == calculateCreditScore(features, rnd) IN
  [approved |-> prediction.approved,
   probability |-> prediction.probability,
   confidence |-> prediction.confidence,
   riskScore |-> prediction.riskScore,
   reasoning |-> prediction.reasoning,
   shapValues |-> predictShapValues(features),
   modelVersion |-> version,
   timestamp |-> ts]

predictPOSTClocked(b, rnd, ts) ==
  IF Throws(b) THEN ServerError("Prediction failed")
  ELSE LET features == featuresOf(b) IN
    IF missingRequired(features)
    THEN BadRequest("Missing required fields: creditScore, income, loanAmount")
    ELSE [status |-> 200,
          success |-> TRUE,
          prediction |-> predictionOf(features, rnd, "1.0." \o ToString(ts), ts),
          input |-> features]

predictPOST(b, rnd, ts) ==
  IF Throws(b) THEN ServerError("Prediction failed")
  ELSE LET features == featuresOf(b) IN
    IF missingRequired(features)
    THEN BadRequest("Missing required fields: creditScore, income, loanAmount")
    ELSE [status |-> 200,
          success |-> TRUE,
          prediction |-> predictionOf(features, rnd, "1.0.0", ts),
          input |-> features]

(***************************************************************************)
(* POST /api/shap/explain                                                   *)
(***************************************************************************)
Abs(x) == IF x < 0 THEN -x ELSE x

ShapValue(feature, value, contribution, displayName) ==
  [feature |-> feature, value |-> value, contribution |-> contribution,
   displayName |-> displayName]

creditContribution(creditScore) ==
  CASE GE(creditScore, 750) -> 22
    [] GE(creditScore, 700) -> 15
    [] GE(creditScore, 650) -> 8
    [] GE(creditScore, 600) -> 2
    [] OTHER -> -12

incomeContribution(income) ==
  CASE GE(income, 80000) -> 15
    [] GE(income, 60000) -> 10
    [] GE(income, 40000) -> 5
    [] GE(income, 30000) -> 0
    [] OTHER -> -8

loanContribution(loanAmount) ==
  CASE LE(loanAmount, 25000) -> 8
    [] LE(loanAmount, 50000) -> 4
    [] LE(loanAmount, 75000) -> 0
    [] LE(loanAmount, 100000) -> -5
    [] OTHER -> -10

dtiContribution(debtToIncome) ==
  CASE RatioLT(debtToIncome, 200) -> 10
    [] RatioLT(debtToIncome, 300) -> 5
    [] RatioLT(debtToIncome, 400) -> -3
    [] OTHER -> -12

empContribution(employmentLength) ==
  CASE GE(employmentLength, 10) -> 8
    [] GE(employmentLength, 5) -> 6
    [] GE(employmentLength, 2) -> 3
    [] GE(employmentLength, 1) -> 0
    [] OTHER -> -4

ageContribution(age) ==
  CASE GE(age, 35) /\ LE(age, 55) -> 6
    [] GE(age, 25) /\ LT(age, 35) -> 3
    [] GE(age, 55) /\ LE(age, 65) -> 2
    [] LT(age, 25) -> -3
    [] OTHER -> -2

homeContribution(homeOwnership) ==
  CASE homeOwnership = Str("own") -> 5
    [] homeOwnership = Str("mortgage") -> 2
    [] OTHER -> 0

derogContributionFlat(derogatory) == IF GT(derogatory, 0) THEN -10 ELSE 2
derogContribution(derogatory) ==
  IF GT(derogatory, 0) THEN -10 * ToNumber(derogatory) ELSE 2

\* shapValues.sort((a, b) => Math.abs(b.contribution) - Math.abs(a.contribution)):
\* a stable sort, largest absolute contribution first
RECURSIVE InsertByAbs(_, _)
InsertByAbs(sv, sorted) ==
  IF sorted = <<>> THEN <<sv>>
  ELSE IF Abs(Head(sorted).contribution) >= Abs(sv.contribution)
       THEN <<Head(sorted)>> \o InsertByAbs(sv, Tail(sorted))
       ELSE <<sv>> \o sorted

RECURSIVE SortByAbs(_)
SortByAbs(svs) ==
  IF svs = <<>> THEN <<>>
  ELSE InsertByAbs(svs[Len(svs)], SortByAbs(SubSeq(svs, 1, Len(svs) - 1)))

\* the eight entries in the order calculateShapValues pushes them
pushedShapValues(features) ==
  <<ShapValue("creditScore", features.creditScore,
              creditContribution(features.creditScore), "Credit Score"),
    ShapValue("income", features.income,
              incomeContribution(features.income), "Annual Income"),
    ShapValue("loanAmount", features.loanAmount,
              loanContribution(features.loanAmount), "Loan Amount"),
    ShapValue("debtToIncome", debtToIncomeOf(features),
              dtiContribution(debtToIncomeOf(features)), "Debt-to-Income Ratio"),
    ShapValue("employmentLength", features.employmentLength,
              empContribution(features.employmentLength), "Employment Length"),
    ShapValue("age", features.age, ageContribution(features.age), "Age"),
    ShapValue("homeOwnership", features.homeOwnership,
              homeContribution(features.homeOwnership), "Home Ownership"),
    ShapValue("derogatory", derogatoryOf(features),
              derogContribution(derogatoryOf(features)), "Derogatory Marks")>>

calculateShapValuesUnsorted(features, prediction) == pushedShapValues(features)
calculateShapValues(features, prediction) == SortByAbs(pushedShapValues(features))

generateGlobalImportance ==
  <<[feature |-> "Credit Score", importance |-> 28],
    [feature |-> "Annual Income", importance |-> 19],
    [feature |-> "Loan Amount", importance |-> 15],
    [feature |-> "Debt-to-Income", importance |-> 12],
    [feature |-> "Employment Length", importance |-> 9],
    [feature |-> "Age", importance |-> 8],
    [feature |-> "Home Ownership", importance |-> 5],
    [feature |-> "Credit Lines", importance |-> 3],
    [feature |-> "Derogatory Marks", importance |-> 1]>>

RECURSIVE SumContribution(_)
SumContribution(svs) ==
  IF svs = <<>> THEN 0 ELSE Head(svs).contribution + SumContribution(Tail(svs))

\* .filter(sv => sv.contribution > 0) or (< 0), by sign = 1 or -1
RECURSIVE FilterSign(_, _)
FilterSign(svs, sign) ==
  IF svs = <<>> THEN <<>>
  ELSE IF sign * Head(svs).contribution > 0
       THEN <<Head(svs)>> \o FilterSign(Tail(svs), sign)
       ELSE FilterSign(Tail(svs), sign)

\* .slice(0, 3).map(sv => sv.displayName)
TopNames(svs) ==
  [i \in 1..Min(3, Len(svs)) |-> svs[i].displayName]

\* names.join(', ')
RECURSIVE Join(_)
Join(names) ==
  IF names = <<>> THEN ""
  ELSE IF Len(names) = 1 THEN names[1]
       ELSE names[1] \o ", " \o Join(Tail(names))

waterfallOf(shapValues, baseValue, finalPrediction) ==
  <<[feature |-> "Base Value", value |-> baseValue]>>
  \o [i \in 1..Len(shapValues) |->
        [feature |-> shapValues[i].displayName, value |-> shapValues[i].contribution]]
  \o <<[feature |-> "Final Prediction", value |-> finalPrediction]>>

\* decision: finalPrediction > 0.5 ? 'Approved' : 'Rejected'
decisionOf(finalPrediction) == IF finalPrediction > 50 THEN "Approved" ELSE "Rejected"

shapPOST(b) ==
  IF Throws(b) THEN ServerError("Explanation generation failed")
  ELSE IF b.type = Str("global")
  THEN [status |-> 200, success |-> TRUE, type |-> "global",
        featureImportance |-> generateGlobalImportance,
        modelType |-> "Random Forest Classifier",
        totalFeatures |-> Len(generateGlobalImportance)]
  ELSE IF ~b.hasFeatures
  THEN BadRequest("Features required for individual explanation")
  ELSE
    LET predictionValue == IF Truthy(b.prediction) THEN b.prediction ELSE Num(50)
        shapValues == calculateShapValues(b.features, predictionValue)
        baseValue == 50
        totalContribution == SumContribution(shapValues)
        finalPrediction == clampProbability(baseValue + totalContribution)
        topPositive == TopNames(FilterSign(shapValues, 1))
        topNegative == TopNames(FilterSign(shapValues, -1))
    IN [status |-> 200, success |-> TRUE, type |-> "individual",
        baseValue |-> baseValue,
        shapValues |-> shapValues,
        finalPrediction |-> finalPrediction,
        interpretation |->
          [decision |-> decisionOf(finalPrediction),
           confidence |-> Abs(finalPrediction - 50) * 2,
           mainFactors |-> IF Len(topPositive) > 0 THEN topPositive ELSE topNegative,
           reasoning |-> IF finalPrediction > 50
                         THEN "Strong positive indicators: " \o Join(topPositive)
                         ELSE "Key concerns: " \o Join(topNegative)],
        features |-> b.features,
        waterfallData |-> waterfallOf(shapValues, baseValue, finalPrediction)]

(***************************************************************************)
(* Exact fractions for the rates and the scores built from them.            *)
(***************************************************************************)
Frac(a, b) == [num |-> a, den |-> b]
FLE(x, y) == x.num * y.den <= y.num * x.den
FLT(x, y) == x.num * y.den < y.num * x.den
FEQ(x, y) == x.num * y.den = y.num * x.den
FAdd(x, y) == Frac(x.num * y.den + y.num * x.den, x.den * y.den)
FSub(x, y) == Frac(x.num * y.den - y.num * x.den, x.den * y.den)
FAbs(x) == Frac(Abs(x.num), x.den)
FMax(x, y) == IF FLE(y, x) THEN x ELSE y
FMin(x, y) == IF FLE(x, y) THEN x ELSE y
FScale(x, k) == Frac(x.num * k, x.den)
FOver(x, k) == Frac(x.num, x.den * k)

\* Math.max(...xs) and Math.min(...xs) of a non-empty list of fractions
RECURSIVE FMaxOf(_)
FMaxOf(xs) == IF Len(xs) = 1 THEN xs[1] ELSE FMax(xs[1], FMaxOf(Tail(xs)))
RECURSIVE FMinOf(_)
FMinOf(xs) == IF Len(xs) = 1 THEN xs[1] ELSE FMin(xs[1], FMinOf(Tail(xs)))
RECURSIVE FSum(_)
FSum(xs) == IF xs = <<>> THEN Frac(0, 1) ELSE FAdd(xs[1], FSum(Tail(xs)))

(***************************************************************************)
(* Rows of a dataset: a JSON object over the columns below (Undefined =     *)
(* the key is absent), or null.  Object.keys lists the keys in KeyOrder.    *)
(***************************************************************************)
KeyOrder ==
  <<"gender", "Gender", "age", "predicted", "approved", "actual", "loan_status">>
Keys == {KeyOrder[i] : i \in 1..Len(KeyOrder)}

Row(g, G, age, p, a, ac, ls) ==
  [isNull |-> FALSE,
   cols |-> [k \in Keys |->
     CASE k = "gender" -> g
       [] k = "Gender" -> G
       [] k = "age" -> age
       [] k = "predicted" -> p
       [] k = "approved" -> a
       [] k = "actual" -> ac
       [] k = "loan_status" -> ls]]
NullRow == [isNull |-> TRUE, cols |-> [k \in Keys |-> Undefined]]

\* row[key]
Get(row, key) == IF key \in Keys THEN row.cols[key] ELSE Undefined

\* a property read of null throws a TypeError
RECURSIVE HasNullRow(_)
HasNullRow(rows) ==
  IF rows = <<>> THEN FALSE ELSE Head(rows).isNull \/ HasNullRow(Tail(rows))

\* [...new Set(values)]: first occurrences, in order
RECURSIVE Unique(_)
Unique(values) ==
  IF values = <<>> THEN <<>>
  ELSE LET init == Unique(SubSeq(values, 1, Len(values) - 1))
           last == values[Len(values)]
       IN IF \E i \in 1..Len(init) : init[i] = last THEN init ELSE Append(init, last)

\* String(value), the key under which a group is stored
String(v) ==
  CASE v.t = "undefined" -> "undefined"
    [] v.t = "null" -> "null"
    [] v.t = "number" -> ToString(v.n)
    [] v.t = "boolean" -> IF v.n = 1 THEN "true" ELSE "false"
    [] OTHER -> v.s

\* !data || !Array.isArray(data) || data.length === 0
invalidData(data) == data.kind # "array" \/ Len(data.rows) = 0

(***************************************************************************)
(* POST /api/model/train                                                    *)
(***************************************************************************)
\* row.loan_status || row.approved || 0
labelOf(row) ==
  IF Truthy(Get(row, "loan_status")) THEN Get(row, "loan_status")
  ELSE IF Truthy(Get(row, "approved")) THEN Get(row, "approved")
  ELSE Num(0)

\* labels.filter(l => l === 1).length
approvedCount(rows) == Len(SelectSeq(rows, LAMBDA row : labelOf(row) = Num(1)))

\* accuracy, precision, recall, f1Score, rocAuc from four Math.random() draws
trainingMetrics(rnd) ==
  LET precision == 8500 + 30 * rnd[2]
      recall == 8800 + 20 * rnd[3]
  IN [accuracy |-> 8730 + 20 * rnd[1],
      precision |-> precision,
      recall |-> recall,
      f1Score |-> Frac(2 * precision * recall, precision + recall),
      rocAuc |-> 8900 + 20 * rnd[4]]

trainFeatureImportance ==
  [creditScore |-> 28, income |-> 19, loanAmount |-> 15, debtToIncome |-> 12,
   employmentLength |-> 9, age |-> 8, totalDebt |-> 5, numCreditLines |-> 3,
   derogatory |-> 1]

trainPOST(b, rnd, ts) ==
  IF Throws(b) THEN ServerError("Model training failed")
  ELSE IF invalidData(b.data) THEN BadRequest("Invalid training data provided")
  ELSE IF HasNullRow(b.data.rows) THEN ServerError("Model training failed")
  ELSE
    LET approved == approvedCount(b.data.rows)
        rejected == Len(b.data.rows) - approved
    IN [status |-> 200, success |-> TRUE,
        model |->
          [modelId |-> ts,
           algorithm |-> "Random Forest",
           trainedAt |-> ts,
           datasetSize |-> Len(b.data.rows),
           features |-> <<"creditScore", "income", "loanAmount", "debtToIncome",
                          "employmentLength", "age", "totalDebt", "numCreditLines",
                          "derogatory">>,
           metrics |-> trainingMetrics(rnd),
           featureImportance |-> trainFeatureImportance,
           classDistribution |->
             [approved |-> approved, rejected |-> rejected,
              approvalRate |-> Frac(approved, Len(b.data.rows))]],
        message |-> "Model trained successfully"]

\* "Store model metadata (in production, save to database/file system)":
\* modelMetadata is a local constant of the handler; nothing outlives the request.
storeModelMetadataKept(saved, res) ==
  IF res.status = 200 THEN Append(saved, res.model.modelId) ELSE saved
storeModelMetadata(saved, res) == saved

(***************************************************************************)
(* POST /api/fairness/analyze (src/app/api/fairness/analyze/route.ts)       *)
(***************************************************************************)
\* row.predicted === 1 || row.approved === 1
isApproved(row) == Get(row, "predicted") = Num(1) \/ Get(row, "approved") = Num(1)
\* row.actual === 1 || row.loan_status === 1
isActualPositive(row) == Get(row, "actual") = Num(1) \/ Get(row, "loan_status") = Num(1)
\* row.actual === 0 || row.loan_status === 0
isActualNegative(row) == Get(row, "actual") = Num(0) \/ Get(row, "loan_status") = Num(0)

GroupMetrics(totalCount, approvalRate, truePositiveRate, falsePositiveRate, precision) ==
  [totalCount |-> totalCount, approvalRate |-> approvalRate,
   truePositiveRate |-> truePositiveRate, falsePositiveRate |-> falsePositiveRate,
   precision |-> precision]

Zero == Frac(0, 1)
One == Frac(1, 1)

calculateGroupMetricsUnfiltered(data, groupKey, groupValue) ==
  GroupMetrics(Len(data), Zero, Zero, Zero, Zero)

calculateGroupMetrics(data, groupKey, groupValue) ==
  LET groupData == SelectSeq(data, LAMBDA row : Get(row, groupKey) = groupValue)
      totalCount == Len(groupData)
      approved == SelectSeq(groupData, isApproved)
      actualPositive == SelectSeq(groupData, isActualPositive)
      actualNegative == SelectSeq(groupData, isActualNegative)
      truePositives ==
        Len(SelectSeq(groupData, LAMBDA row : isApproved(row) /\ isActualPositive(row)))
      falsePositives ==
        Len(SelectSeq(groupData, LAMBDA row : isApproved(row) /\ isActualNegative(row)))
  IN IF totalCount = 0 THEN GroupMetrics(0, Zero, Zero, Zero, Zero)
     ELSE GroupMetrics(
       totalCount,
       Frac(Len(approved), totalCount),
       IF Len(actualPositive) > 0 THEN Frac(truePositives, Len(actualPositive)) ELSE Zero,
       IF Len(actualNegative) > 0 THEN Frac(falsePositives, Len(actualNegative)) ELSE Zero,
       IF Len(approved) > 0 THEN Frac(truePositives, Len(approved)) ELSE Zero)

\* the three sub-scores added up and never divided by 3
calculateFairnessScoreSum(metrics) ==
  LET hundred == Frac(100, 1)
      dpScore == FMax(Zero, FSub(hundred, FScale(FAbs(metrics.demographicParityDifference), 100)))
      eoScore == FMax(Zero, FSub(hundred, FScale(FAbs(metrics.equalOpportunityDifference), 100)))
      diScore ==
        IF FLE(Frac(4, 5), metrics.disparateImpact) /\ FLE(metrics.disparateImpact, Frac(5, 4))
        THEN hundred
        ELSE FMax(Zero, FSub(hundred, FScale(FAbs(FSub(One, metrics.disparateImpact)), 100)))
  IN FAdd(FAdd(dpScore, eoScore), diScore)
calculateFairnessScore(metrics) ==
  LET hundred == Frac(100, 1)
      dpScore == FMax(Zero, FSub(hundred, FScale(FAbs(metrics.demographicParityDifference), 100)))
      eoScore == FMax(Zero, FSub(hundred, FScale(FAbs(metrics.equalOpportunityDifference), 100)))
      diScore ==
        IF FLE(Frac(4, 5), metrics.disparateImpact) /\ FLE(metrics.disparateImpact, Frac(5, 4))
        THEN hundred
        ELSE FMax(Zero, FSub(hundred, FScale(FAbs(FSub(One, metrics.disparateImpact)), 100)))
  IN FOver(FAdd(FAdd(dpScore, eoScore), diScore), 3)

\* the keys of groupMetrics: groupMetrics[String(group)] = ... for each group in turn
\* (Object.values lists integer-like keys first; the order changes no result here)
groupKeysOf(uniqueGroups) ==
  Unique([i \in 1..Len(uniqueGroups) |-> String(uniqueGroups[i])])

\* the group whose metrics end up under key k: the last one written
lastGroupFor(uniqueGroups, k) ==
  LET is == {i \in 1..Len(uniqueGroups) : String(uniqueGroups[i]) = k}
  IN uniqueGroups[CHOOSE i \in is : \A j \in is : j <= i]

\* maxApprovalRate - minApprovalRate
demographicParityReversed(maxApprovalRate, minApprovalRate) ==
  FSub(minApprovalRate, maxApprovalRate)
demographicParityDifferenceOf(maxApprovalRate, minApprovalRate) ==
  FSub(maxApprovalRate, minApprovalRate)

\* minApprovalRate / (maxApprovalRate || 1)
disparateImpactUndivided(minApprovalRate, maxApprovalRate) == minApprovalRate
disparateImpactOf(minApprovalRate, maxApprovalRate) ==
  IF maxApprovalRate.num # 0
  THEN Frac(minApprovalRate.num * maxApprovalRate.den,
            minApprovalRate.den * maxApprovalRate.num)
  ELSE minApprovalRate

\* maxApprovalRate > 0 ? minApprovalRate / maxApprovalRate : 1
disparateImpactRevised(minApprovalRate, maxApprovalRate) ==
  IF maxApprovalRate.num > 0
  THEN Frac(minApprovalRate.num * maxApprovalRate.den,
            minApprovalRate.den * maxApprovalRate.num)
  ELSE One

\* the four age bands of the age-group analysis
AgeBands == <<"18-30", "31-45", "46-60", "60+">>
inAgeBand(age, band) ==
  CASE band = "18-30" -> GE(age, 18) /\ LE(age, 30)
    [] band = "31-45" -> GE(age, 31) /\ LE(age, 45)
    [] band = "46-60" -> GE(age, 46) /\ LE(age, 60)
    [] OTHER -> GT(age, 60)

\* approved[i] tells whether row i counts as approved
ageMetricsOf(data, ageCol, approved) ==
  LET rowsOf(band) == {i \in 1..Len(data) : inAgeBand(Get(data[i], ageCol), band)}
      present == {band \in {AgeBands[i] : i \in 1..Len(AgeBands)} : rowsOf(band) # {}}
  IN [band \in present |->
       [count |-> Cardinality(rowsOf(band)),
        approvalRate |->
          Frac(Cardinality({i \in rowsOf(band) : approved[i]}), Cardinality(rowsOf(band)))]]

ComplianceKeys == {"80PercentRule", "demographicParity", "equalOpportunity"}

\* everything the handler derives from groupMetrics (the two revisions of the
\* handler differ here only in the disparate-impact line)
fairnessReport(groupMetrics, keys, protectedAttribute, agePresent, ageMetrics, revised) ==
  LET approvalRates == [i \in 1..Len(keys) |-> groupMetrics[keys[i]].approvalRate]
      maxApprovalRate == FMaxOf(approvalRates)
      minApprovalRate == FMinOf(approvalRates)
      demographicParityDifference ==
        demographicParityDifferenceOf(maxApprovalRate, minApprovalRate)
      tprValues == [i \in 1..Len(keys) |-> groupMetrics[keys[i]].truePositiveRate]
      equalOpportunityDifference == FSub(FMaxOf(tprValues), FMinOf(tprValues))
      disparateImpact ==
        IF revised THEN disparateImpactRevised(minApprovalRate, maxApprovalRate)
        ELSE disparateImpactOf(minApprovalRate, maxApprovalRate)
      avgApprovalRate == FOver(FSum(approvalRates), Len(approvalRates))
      statisticalParityDifference ==
        FMaxOf([i \in 1..Len(keys) |-> FAbs(FSub(approvalRates[i], avgApprovalRate))])
      fairnessScore ==
        calculateFairnessScore(
          [demographicParityDifference |-> demographicParityDifference,
           equalOpportunityDifference |-> equalOpportunityDifference,
           disparateImpact |-> disparateImpact])
      attributeAnalysis ==
        [groups |-> groupMetrics,
         demographicParity |-> FSub(One, demographicParityDifference),
         equalOpportunity |-> FSub(One, equalOpportunityDifference),
         disparateImpact |-> disparateImpact]
      \* biasAnalysis.age = { groups: ageMetrics } is assigned after, and over,
      \* the entry of the protected attribute
      biasAnalysis ==
        [k \in {protectedAttribute} \cup (IF agePresent THEN {"age"} ELSE {}) |->
           IF agePresent /\ k = "age" THEN [groups |-> ageMetrics] ELSE attributeAnalysis]
      r1 == IF FLT(disparateImpact, Frac(4, 5))
            THEN <<"Disparate impact detected: Approval rate ratio is below 80% threshold",
                   "Consider reviewing feature selection and model training data for bias">>
            ELSE <<>>
      r2 == IF FLT(Frac(1, 10), demographicParityDifference)
            THEN <<"Significant demographic parity gap detected (>10%)",
                   "Implement fairness constraints during model training">>
            ELSE <<>>
      r3 == IF FLT(Frac(1, 10), equalOpportunityDifference)
            THEN <<"Equal opportunity violation: Different TPR across groups",
                   "Apply post-processing techniques to equalize TPR">>
            ELSE <<>>
      recommendations ==
        IF Len(r1 \o r2 \o r3) = 0
        THEN <<"Model shows acceptable fairness metrics across protected groups",
               "Continue monitoring for fairness in production">>
        ELSE r1 \o r2 \o r3
  IN [overallScore |-> fairnessScore,
      metrics |->
        [demographicParity |-> FSub(One, demographicParityDifference),
         demographicParityDifference |-> demographicParityDifference,
         equalOpportunity |-> FSub(One, equalOpportunityDifference),
         equalOpportunityDifference |-> equalOpportunityDifference,
         disparateImpact |-> disparateImpact,
         disparateImpactRatio |-> disparateImpact,
         statisticalParity |-> FSub(One, statisticalParityDifference)],
      groupMetrics |-> groupMetrics,
      biasAnalysis |-> biasAnalysis,
      recommendations |-> recommendations,
      protectedAttribute |-> protectedAttribute,
      complianceStatus |->
        [k \in ComplianceKeys |->
           CASE k = "80PercentRule" -> FLE(Frac(4, 5), disparateImpact)
             [] k = "demographicParity" -> FLE(demographicParityDifference, Frac(1, 10))
             [] OTHER -> FLE(equalOpportunityDifference, Frac(1, 10))]]

\* const { data, protectedAttribute = 'gender' } = await request.json()
protectedAttributeOf(b) ==
  IF b.protectedAttribute.t = "undefined" THEN "gender" ELSE b.protectedAttribute.s

\* [...new Set(data.map(row => row[protectedAttribute]))]
uniqueGroupsOf(data, protectedAttribute) ==
  Unique([i \in 1..Len(data) |-> Get(data[i], protectedAttribute)])

fairnessPOST(b, ts) ==
  IF Throws(b) THEN ServerError("Fairness analysis failed")
  ELSE IF invalidData(b.data) THEN BadRequest("Invalid data provided")
  ELSE IF HasNullRow(b.data.rows) THEN ServerError("Fairness analysis failed")
  ELSE
    LET data == b.data.rows
        protectedAttribute == protectedAttributeOf(b)
        uniqueGroups == uniqueGroupsOf(data, protectedAttribute)
        keys == groupKeysOf(uniqueGroups)
        groupMetrics ==
          [k \in {keys[i] : i \in 1..Len(keys)} |->
             calculateGroupMetrics(data, protectedAttribute, lastGroupFor(uniqueGroups, k))]
    IN IF Len(uniqueGroups) < 2
       THEN BadRequest("Need at least 2 groups for fairness analysis")
       ELSE [status |-> 200, success |-> TRUE,
             fairness |->
               fairnessReport(groupMetrics, keys, protectedAttribute,
                              Truthy(Get(data[1], "age")),
                              ageMetricsOf(data, "age",
                                           [i \in 1..Len(data) |-> isApproved(data[i])]),
                              FALSE),
             timestamp |-> ts]

(***************************************************************************)
(* POST /api/fairness/analyze, revised handler (unnamed/part_009)           *)
(***************************************************************************)
\* s.toLowerCase() and s.trim() on the strings of the model
LowerCase(x) ==
  CASE x = "Gender" -> "gender"
    [] x = "Sex" -> "sex"
    [] x = "Married" -> "married"
    [] x = "Education" -> "education"
    [] x = "Age" -> "age"
    [] OTHER -> x
Trim(x) ==
  CASE x = " M" -> "M"
    [] x = " " -> ""
    [] OTHER -> x

\* Object.keys(row)
keysOf(row) == SelectSeq(KeyOrder, LAMBDA k : row.cols[k].t # "undefined")

\* the column found, or NoColumn for null
NoColumn == ""
RECURSIVE findColumn(_, _)
findColumn(row, possibleNames) ==
  IF possibleNames = <<>> THEN NoColumn
  ELSE LET found == SelectSeq(keysOf(row),
                              LAMBDA k : LowerCase(k) = LowerCase(Head(possibleNames)))
       IN IF found # <<>> THEN found[1] ELSE findColumn(row, Tail(possibleNames))

ApprovedValues ==
  {Str("Y"), Str("y"), Num(1), Str("1"), Bool(TRUE), Str("approved"), Str("Approved"),
   Str("yes"), Str("Yes")}
RejectedValues ==
  {Str("N"), Str("n"), Num(0), Str("0"), Bool(FALSE), Str("rejected"), Str("Rejected"),
   Str("no"), Str("No")}

\* 1, 0, or NoStatus for null
NoStatus == -1
getApprovalStatus(row) ==
  LET loanStatusCol ==
        findColumn(row, <<"loan_status", "loanstatus", "status", "approved", "predicted">>)
  IN IF loanStatusCol = NoColumn THEN NoStatus
     ELSE IF Get(row, loanStatusCol) \in ApprovedValues THEN 1
     ELSE IF Get(row, loanStatusCol) \in RejectedValues THEN 0
     ELSE NoStatus

statusApproved(row) == getApprovalStatus(row) = 1

calculateGroupMetricsFromData(data) ==
  LET totalCount == Len(data)
      approvedCnt == Len(SelectSeq(data, statusApproved))
      approvalRate == Frac(approvedCnt, totalCount)
  IN IF totalCount = 0 THEN GroupMetrics(0, Zero, Zero, Zero, Zero)
     ELSE GroupMetrics(totalCount, approvalRate, approvalRate, Zero, approvalRate)

\* the value a row contributes to the set of groups: strings trimmed, '' -> null
normalizedGroup(val) ==
  IF val.t = "string"
  THEN (IF Trim(val.s) = "" THEN Null ELSE Str(Trim(val.s)))
  ELSE val

\* [...new Set(data.map(normalize))].filter(g => g !== null && g !== undefined)
uniqueGroupsKeepBlank(data, actualProtectedAttr) ==
  Unique([i \in 1..Len(data) |-> normalizedGroup(Get(data[i], actualProtectedAttr))])
uniqueGroupsNormalized(data, actualProtectedAttr) ==
  SelectSeq(Unique([i \in 1..Len(data) |->
                      normalizedGroup(Get(data[i], actualProtectedAttr))]),
            LAMBDA g : g.t \notin {"null", "undefined"})

\* data.filter(row => typeof val === 'string' ? val.trim() === group : val === group)
groupDataOf(data, actualProtectedAttr, group) ==
  SelectSeq(data, LAMBDA row :
    LET val == Get(row, actualProtectedAttr)
    IN IF val.t = "string" THEN Str(Trim(val.s)) = group ELSE val = group)


possibleProtectedAttrs ==
  <<"gender", "Gender", "sex", "Sex", "married", "Married", "education", "Education">>

\* findColumn(firstRow, [protectedAttribute]), else any of possibleProtectedAttrs
actualProtectedAttrOf(firstRow, protectedAttribute) ==
  IF findColumn(firstRow, <<protectedAttribute>>) # NoColumn
  THEN findColumn(firstRow, <<protectedAttribute>>)
  ELSE findColumn(firstRow, possibleProtectedAttrs)

fairnessPOST_part009(b, ts) ==
  IF Throws(b) THEN ServerError("Fairness analysis failed")
  ELSE IF invalidData(b.data) THEN BadRequest("Invalid data provided")
  ELSE IF b.data.rows[1].isNull THEN ServerError("Fairness analysis failed")
  ELSE
    LET data == b.data.rows
        firstRow == data[1]
        actualProtectedAttr == actualProtectedAttrOf(firstRow, protectedAttributeOf(b))
        uniqueGroups == uniqueGroupsNormalized(data, actualProtectedAttr)
        keys == groupKeysOf(uniqueGroups)
        groupMetrics ==
          [k \in {keys[i] : i \in 1..Len(keys)} |->
             calculateGroupMetricsFromData(
               groupDataOf(data, actualProtectedAttr, lastGroupFor(uniqueGroups, k)))]
        ageCol == findColumn(firstRow, <<"age", "Age", "applicant_age">>)
    IN IF actualProtectedAttr = NoColumn
       THEN BadRequest("Protected attribute not found in data")  \* the columns listed after it are left out
       ELSE IF HasNullRow(data) THEN ServerError("Fairness analysis failed")
       ELSE IF Len(uniqueGroups) < 2  \* the message goes on with the groups and sample values found
       THEN BadRequest("Need at least 2 groups for fairness analysis")
       ELSE [status |-> 200, success |-> TRUE,
             fairness |->
               fairnessReport(groupMetrics, keys, actualProtectedAttr,
                              ageCol # NoColumn,
                              ageMetricsOf(data, ageCol,
                                           [i \in 1..Len(data) |-> statusApproved(data[i])]),
                              TRUE),
             timestamp |-> ts]

(***************************************************************************)
(* DataUploadSection: the CSV text of a file is a sequence of tokens: the   *)
(* separators "," and "\n", the blank " ", and words without any of them.   *)
(***************************************************************************)
Blank == " "
Comma == ","
NewLine == "\n"

\* text.split(sep): the pieces between the separators, empty pieces included
RECURSIVE splitFrom(_, _, _)
splitFrom(text, sep, pieces) ==
  IF text = <<>> THEN pieces
  ELSE splitFrom(Tail(text), sep,
                 IF Head(text) = sep THEN Append(pieces, <<>>)
                 ELSE [pieces EXCEPT ![Len(pieces)] = Append(@, Head(text))])
split(text, sep) == splitFrom(text, sep, <<(<<>>)>>)

\* s.trim()
RECURSIVE trimStart(_)
trimStart(s) == IF s # <<>> /\ Head(s) = Blank THEN trimStart(Tail(s)) ELSE s
RECURSIVE trimEnd(_)
trimEnd(s) ==
  IF s # <<>> /\ s[Len(s)] = Blank THEN trimEnd(SubSeq(s, 1, Len(s) - 1)) ELSE s
trim(s) == trimEnd(trimStart(s))

\* the characters of a piece as one string
RECURSIVE Concat(_)
Concat(s) == IF s = <<>> THEN "" ELSE Head(s) \o Concat(Tail(s))

\* text.split("\n").filter(line => line.trim())
linesOf(text) == SelectSeq(split(text, NewLine), LAMBDA line : trim(line) # <<>>)

\* lines[0].split(",").map(h => h.trim())
headersOf(lines) ==
  LET cells == split(lines[1], Comma) IN [i \in 1..Len(cells) |-> Concat(trim(cells[i]))]

\* values[index]?.trim() || ""
valueAt(values, index) == IF index <= Len(values) THEN Concat(trim(values[index])) ELSE ""

\* obj[header] = value on an object kept as its keys, in insertion order, and
\* their values
setProperty(obj, header, value) ==
  IF \E i \in 1..Len(obj.keys) : obj.keys[i] = header
  THEN [obj EXCEPT !.values = [k \in DOMAIN obj.values |-> IF k = header THEN value ELSE @[k]]]
  ELSE [keys |-> Append(obj.keys, header),
        values |-> [k \in DOMAIN obj.values \cup {header} |->
                      IF k = header THEN value ELSE obj.values[k]]]

\* headers.reduce((obj, header, index) => { obj[header] = ...; return obj }, {})
RECURSIVE reduceHeaders(_, _, _)
reduceHeaders(headers, values, n) ==
  IF n = 0 THEN [keys |-> <<>>, values |-> <<>>]
  ELSE setProperty(reduceHeaders(headers, values, n - 1), headers[n], valueAt(values, n))
rowOfLine(headers, line) == reduceHeaders(headers, split(line, Comma), Len(headers))

\* Object.values(row).some(v => v !== "")
someValue(row) == \E k \in DOMAIN row.values : row.values[k] # ""

\* lines.slice(1).map(...).filter(...)
allRowsOf(headers, lines) ==
  SelectSeq([i \in 1..(Len(lines) - 1) |-> rowOfLine(headers, lines[i + 1])], someValue)

\* rows.slice(0, n)
slice(rows, n) == SubSeq(rows, 1, IF Len(rows) < n THEN Len(rows) ELSE n)

\* lines[0] is undefined when the file has no line that is not blank, and
\* lines[0].split throws a TypeError inside reader.onload
readerThrows(text) == linesOf(text) = <<>>

PreviewRows == 5

\* rowCount: allRows.length
rowCountOfLines(lines, allRows) == Len(lines) - 1
rowCountOf(lines, allRows) == Len(allRows)

\* the object handleUpload passes to onDataUploaded
uploadedDataOf(filename, text) ==
  LET lines == linesOf(text)
      headers == headersOf(lines)
      allRows == allRowsOf(headers, lines)
  IN [filename |-> filename,
      size |-> Len(text),
      rowCount |-> rowCountOf(lines, allRows),
      columnCount |-> Len(headers),
      headers |-> headers,
      rows |-> allRows,
      preview |-> slice(allRows, PreviewRows)]

(***************************************************************************)
(* The requests a client sends.                                             *)
(***************************************************************************)
Features(creditScore, income, loanAmount, profile, derogatory) ==
  [creditScore |-> creditScore, income |-> income, loanAmount |-> loanAmount,
   debtToIncome |-> profile.debtToIncome,
   employmentLength |-> profile.employmentLength,
   age |-> profile.age, homeOwnership |-> profile.homeOwnership,
   derogatory |-> derogatory]

Profile(debtToIncome, employmentLength, age, homeOwnership) ==
  [debtToIncome |-> debtToIncome, employmentLength |-> employmentLength,
   age |-> age, homeOwnership |-> homeOwnership]

CreditScores == {Undefined, Num(0), Num(580), Num(620), Num(680), Num(720), Num(760)}
Incomes == {Undefined, Num(0), Num(20000), Num(60000), Num(90000)}
LoanAmounts == {Undefined, Num(0), Num(10000), Num(70000), Num(120000)}
Derogatories == {Undefined} \cup {Num(d) : d \in 0..MaxDerog}
Profiles ==
  {Profile(Undefined, Undefined, Undefined, Undefined),
   Profile(Num(20), Num(6), Num(40), Str("own")),
   Profile(Num(60), Num(1), Num(20), Str("rent"))}

FeatureSets ==
  {Features(c, i, l, p, d) :
     c \in CreditScores, i \in Incomes, l \in LoanAmounts, p \in Profiles,
     d \in Derogatories}

NoFeatures ==
  Features(Undefined, Undefined, Undefined,
           Profile(Undefined, Undefined, Undefined, Undefined), Undefined)

NoData == [kind |-> "missing", rows |-> <<>>]

EmptyBody ==
  [json |-> "object", hasFeatures |-> FALSE, top |-> NoFeatures, features |-> NoFeatures,
   type |-> Undefined, prediction |-> Undefined, data |-> NoData,
   protectedAttribute |-> Undefined]

\* a body that is no JSON, and the JSON body null
BrokenBodies == {[EmptyBody EXCEPT !.json = j] : j \in {"invalid", "null"}}

\* { features: {...} }, and the features sent at the top level of the body
PredictBodies ==
  {[EmptyBody EXCEPT !.hasFeatures = TRUE, !.features = f] : f \in FeatureSets}
  \cup {[EmptyBody EXCEPT !.top = Features(c, Num(60000), Num(10000),
                                           Profile(Undefined, Undefined, Undefined, Undefined),
                                           Undefined)] : c \in {Undefined, Num(720)}}
  \cup BrokenBodies

ShapBodies ==
  {[EmptyBody EXCEPT !.hasFeatures = TRUE, !.features = f, !.prediction = p] :
     f \in FeatureSets, p \in {Undefined, Num(73)}}
  \cup {[EmptyBody EXCEPT !.type = t] : t \in {Undefined, Str("individual"), Str("global")}}
  \cup BrokenBodies

SeqsUpTo(S, n) == UNION {[1..k -> S] : k \in 0..n}

Array(rows) == [kind |-> "array", rows |-> rows]

TrainRows ==
  {Row(Undefined, Undefined, Undefined, Undefined, a, Undefined, ls) :
     a \in {Undefined, Num(0), Num(1)}, ls \in {Undefined, Num(0), Num(1)}}
  \cup {NullRow}

TrainBodies ==
  {[EmptyBody EXCEPT !.data = Array(rows)] : rows \in SeqsUpTo(TrainRows, MaxRows)}
  \cup {[EmptyBody EXCEPT !.data = d] : d \in {NoData, [kind |-> "notArray", rows |-> <<>>]}}
  \cup BrokenBodies

U == Undefined
FairnessRows ==
  {Row(Str("M"), U, U, Num(1), U, Num(1), U),
   Row(Str("M"), U, U, Num(0), U, Num(1), U),
   Row(Str("F"), U, U, Num(1), U, Num(1), U),
   Row(Str("F"), U, U, Num(0), U, Num(0), U),
   Row(Str("F"), U, U, Num(1), U, Num(0), U),
   Row(Str("M"), U, U, U, Num(1), U, Num(0)),
   Row(Str("F"), U, U, U, Num(0), U, Num(1)),
   Row(Str(" M"), U, U, Num(1), U, Num(1), U),
   Row(Str(""), U, U, Num(1), U, Num(1), U),
   Row(Num(1), U, U, Num(1), U, Num(1), U),
   Row(Str("1"), U, U, Num(0), U, Num(1), U),
   Row(U, Str("M"), U, U, U, U, Str("Y")),
   Row(U, Str("F"), U, U, U, U, Str("N")),
   Row(Str("M"), U, Num(25), Num(1), U, Num(1), U),
   Row(Str("F"), U, Num(50), Num(0), U, Num(1), U),
   NullRow}

\* rows of datasets analysed by age
AgeRows ==
  {Row(Str("M"), U, Num(25), Num(1), U, Num(1), U),
   Row(Str("F"), U, Num(50), Num(0), U, Num(1), U),
   Row(Str("F"), U, U, Num(1), U, Num(0), U),
   NullRow}

\* a dataset of two groups given by its counts: n rows per group, k of them approved
Repeated(row, n) == [i \in 1..n |-> row]
Table(nM, kM, nF, kF) ==
  Repeated(Row(Str("M"), U, U, Num(1), U, Num(1), U), kM)
  \o Repeated(Row(Str("M"), U, U, Num(0), U, Num(1), U), nM - kM)
  \o Repeated(Row(Str("F"), U, U, Num(1), U, Num(1), U), kF)
  \o Repeated(Row(Str("F"), U, U, Num(0), U, Num(1), U), nF - kF)
Tables ==
  {Table(nM, kM, nF, kF) :
     <<nM, kM, nF, kF>> \in
       {t \in (1..MaxGroup) \X (0..MaxGroup) \X (1..MaxGroup) \X (0..MaxGroup) :
          t[2] <= t[1] /\ t[4] <= t[3]}}

\* datasets of MaxRows rows followed by a row whose gender cell is blank or missing
BlankRows ==
  {Row(Str(""), U, U, Num(1), U, Num(1), U), Row(Str(" "), U, U, Num(0), U, Num(1), U),
   Row(U, U, U, Num(1), U, Num(1), U)}
PaddedRows ==
  {Row(Str("M"), U, U, Num(1), U, Num(1), U), Row(Str("F"), U, U, Num(0), U, Num(0), U),
   Row(Str(" M"), U, U, Num(1), U, Num(1), U), Row(Num(1), U, U, Num(1), U, Num(1), U),
   Row(Str("1"), U, U, Num(0), U, Num(1), U)}
Padded == {rows \o <<r>> : rows \in [1..MaxRows -> PaddedRows], r \in BlankRows}

FairnessBodies ==
  {[EmptyBody EXCEPT !.data = Array(rows)] : rows \in SeqsUpTo(FairnessRows, MaxRows)}
  \cup {[EmptyBody EXCEPT !.data = Array(rows), !.protectedAttribute = Str("age")] :
          rows \in SeqsUpTo(AgeRows, MaxRows)}
  \cup {[EmptyBody EXCEPT !.data = Array(rows)] : rows \in Tables \cup Padded}
  \cup {[EmptyBody EXCEPT !.data = d] : d \in {NoData, [kind |-> "notArray", rows |-> <<>>]}}
  \cup BrokenBodies

\* Math.random() draws of one request (in tenths), and readings of the clock
RandomStreams == {<<0, 0, 0, 0>>, <<9, 5, 0, 9>>}
Times == {1, 2}

(***************************************************************************)
(* The dashboard: DashboardPage keeps uploadedData and mirrors it in         *)
(* localStorage, DataUploadSection parses a dropped CSV file and delivers    *)
(* it, FairnessAuditSection posts the data it is given to the fairness       *)
(* endpoint.  React runs the effects of a render after it, in the order of   *)
(* their declaration, and before it handles another event.                   *)
(***************************************************************************)
MaxCsvRows == 2      \* generated CSV files have at most MaxCsvRows data lines

\* CSV files: a header line and data lines, each ending in a newline
Line(cells) == cells \o <<NewLine>>
GenderHeader == Line(<<"gender", Comma, "approved">>)
DataLines ==
  <<Line(<<"M", Comma, "1">>), Line(<<"F", Comma, "0">>),
    Line(<<Blank, Comma, Blank>>), Line(<<Blank, "F", Blank>>)>>
RECURSIVE Flatten(_)
Flatten(ls) == IF ls = <<>> THEN <<>> ELSE Head(ls) \o Flatten(Tail(ls))
\* the header and n data lines, taken in turn from DataLines beginning after
\* the first
GeneratedFile(first, n) ==
  GenderHeader \o Flatten([i \in 1..n |-> DataLines[((first + i - 1) % Len(DataLines)) + 1]])
GeneratedFiles ==
  {GeneratedFile(first, n) : first \in 0..(Len(DataLines) - 1), n \in 0..MaxCsvRows}
SpecialFiles ==
  {<<>>,                                                   \* an empty file
   <<Blank, NewLine, NewLine>>,                            \* blank lines only
   <<"a">>,                                                \* no newline at all
   Line(<<"a", Comma, "a">>) \o Line(<<"1", Comma, "0">>), \* the same header twice
   Line(<<"a", Comma>>) \o Line(<<"1">>),                  \* a header that is empty
   Line(<<"a">>) \o Line(<<"1", Comma, "0">>),             \* more cells than headers
   GenderHeader \o Flatten([i \in 1..(PreviewRows + 2) |->
                              IF i = 2 THEN Line(<<Comma>>)
                              ELSE IF i % 2 = 0 THEN Line(<<"M", Comma, "1">>)
                              ELSE Line(<<"F", Comma, "0">>)])}
Files == GeneratedFiles \cup SpecialFiles
FileName == "data.csv"

\* localStorage.getItem gives null or a string; JSON.stringify writes the
\* properties of the object in their order, JSON.parse reads them back
DataKeys == <<"filename", "size", "rowCount", "columnCount", "headers", "rows", "preview">>
NoItem == [present |-> FALSE, valid |-> FALSE, members |-> <<>>]
CorruptItem == [present |-> TRUE, valid |-> FALSE, members |-> <<>>]
JSONstringify(data) ==
  [present |-> TRUE, valid |-> TRUE,
   members |-> [i \in 1..Len(DataKeys) |-> <<DataKeys[i], data[DataKeys[i]]>>]]
JSONparse(item) ==
  LET at(k) == CHOOSE i \in 1..Len(item.members) : item.members[i][1] = k
  IN [k \in {item.members[i][1] : i \in 1..Len(item.members)} |-> item.members[at(k)][2]]

\* the state of the three components before they are mounted
NoPage == [mounted |-> FALSE, uploadedData |-> Null, isLoaded |-> FALSE, effects |-> "none"]
\* a FileReader: live while the component that started it is mounted
NoReader == [state |-> "none", text |-> <<>>, live |-> FALSE]
detached(reader) == [reader EXCEPT !.live = FALSE]
NoUploadSection ==
  [file |-> Null, uploading |-> FALSE, uploadStatus |-> "idle", preview |-> <<>>,
   previewReader |-> NoReader, uploadReader |-> NoReader]
NoAudit ==
  [shown |-> FALSE, fairnessData |-> Null, loading |-> FALSE, error |-> Null,
   effect |-> FALSE, fetching |-> FALSE]
\* reader.onload of each file, worked out once: whether it throws, the rows
\* onDrop previews, and the object handleUpload delivers
onload ==
  [text \in Files |->
     IF readerThrows(text) THEN [throws |-> TRUE, preview |-> <<>>, data |-> Null]
     ELSE [throws |-> FALSE,
           preview |-> slice(allRowsOf(headersOf(linesOf(text)), linesOf(text)), PreviewRows),
           data |-> uploadedDataOf(FileName, text)]]

FileOf(text) == [t |-> "file", name |-> FileName, text |-> text]

\* const savedData = localStorage.getItem(...); if (savedData) { try {
\* setUploadedData(JSON.parse(savedData)) } catch ... }
loadEffect(savedData) ==
  IF savedData.present /\ savedData.valid THEN JSONparse(savedData) ELSE Null

\* if (isLoaded) { if (uploadedData) setItem(...) else removeItem(...) }
saveEffectUnloaded(isLoaded, uploadedData, item) ==
  IF ~isLoaded
  THEN (IF uploadedData # Null THEN JSONstringify(uploadedData) ELSE NoItem)
  ELSE item
saveEffect(isLoaded, uploadedData, item) ==
  IF isLoaded
  THEN (IF uploadedData # Null THEN JSONstringify(uploadedData) ELSE NoItem)
  ELSE item

\* data.length of the prop FairnessAuditSection is given: the object that
\* DataUploadSection delivers has no length
lengthOf(data) == Undefined

\* JSON.stringify({ data: data, protectedAttribute: 'gender' }) as the handler
\* reads it: the data posted is an object, not an array
analysisBody(data) ==
  [EmptyBody EXCEPT !.data = IF data = Null THEN NoData
                              ELSE [kind |-> "notArray", rows |-> <<>>],
                    !.protectedAttribute = Str("gender")]

(***************************************************************************)
(* The state machine: a client posts a body to an endpoint, the handler     *)
(* answers, the client reads the answer and either sends the same body      *)
(* again or moves on.                                                       *)
(***************************************************************************)
NoResponse == [status |-> 0]

Init ==
  /\ phase = "idle"
  /\ endpoint = "none"
  /\ body = EmptyBody
  /\ response = NoResponse
  /\ earlier = NoResponse
  /\ savedModels = <<>>
  /\ predictionResponse = NoResponse
  /\ page = NoPage
  /\ localStorage = NoItem
  /\ upload = NoUploadSection
  /\ audit = NoAudit

Send(e, b) ==
  /\ phase' = "pending"
  /\ endpoint' = e
  /\ body' = b
  /\ UNCHANGED <<response, earlier, savedModels, predictionResponse, dashboard>>

SendPredict == phase = "idle" /\ \E b \in PredictBodies : Send("predict", b)
SendTrain == phase = "idle" /\ \E b \in TrainBodies : Send("train", b)
SendFairness == phase = "idle" /\ \E b \in FairnessBodies : Send("fairness", b)
SendFairnessPart009 ==
  phase = "idle" /\ \E b \in FairnessBodies : Send("fairness_part009", b)
SendShap == phase = "idle" /\ \E b \in ShapBodies : Send("shap", b)

Pending(e) == phase = "pending" /\ endpoint = e

Answer(res) ==
  /\ phase' = "done"
  /\ response' = res
  /\ UNCHANGED <<endpoint, body, earlier, predictionResponse, dashboard>>

HandlePredict ==
  /\ Pending("predict")
  /\ \E rnd \in RandomStreams, ts \in Times : Answer(predictPOST(body, rnd, ts))
  /\ UNCHANGED savedModels

HandleTrain ==
  /\ Pending("train")
  /\ \E rnd \in RandomStreams, ts \in Times :
       LET res == trainPOST(body, rnd, ts)
       IN Answer(res) /\ savedModels' = storeModelMetadata(savedModels, res)

HandleFairness ==
  /\ Pending("fairness")
  /\ \E ts \in Times : Answer(fairnessPOST(body, ts))
  /\ UNCHANGED savedModels

HandleFairnessPart009 ==
  /\ Pending("fairness_part009")
  /\ \E ts \in Times : Answer(fairnessPOST_part009(body, ts))
  /\ UNCHANGED savedModels

HandleShap ==
  /\ Pending("shap")
  /\ Answer(shapPOST(body))
  /\ UNCHANGED savedModels

\* step 2 of the documented flow: the client that got a prediction posts the
\* same features, with prediction.probability, to /api/shap/explain
SendExplain ==
  /\ phase = "done" /\ endpoint = "predict" /\ response.status = 200
  /\ body.hasFeatures
  /\ phase' = "pending"
  /\ endpoint' = "shap"
  /\ body' = [EmptyBody EXCEPT !.hasFeatures = TRUE, !.features = body.features,
                               !.type = Str("individual"),
                               !.prediction = Num(response.prediction.probability)]
  /\ predictionResponse' = response
  /\ response' = NoResponse
  /\ earlier' = NoResponse
  /\ UNCHANGED <<savedModels, dashboard>>

\* the client sends the same body to the same endpoint once more
Repeat ==
  /\ phase = "done"
  /\ phase' = "pending"
  /\ earlier' = response
  /\ response' = NoResponse
  /\ UNCHANGED <<endpoint, body, savedModels, predictionResponse, dashboard>>

\* the client is done with this exchange
Close ==
  /\ phase = "done"
  /\ phase' = "idle"
  /\ endpoint' = "none"
  /\ body' = EmptyBody
  /\ response' = NoResponse
  /\ earlier' = NoResponse
  /\ predictionResponse' = NoResponse
  /\ UNCHANGED <<savedModels, dashboard>>

Next ==
  \/ SendPredict
  \/ SendTrain
  \/ SendFairness
  \/ SendFairnessPart009
  \/ SendShap
  \/ HandlePredict
  \/ HandleTrain
  \/ HandleFairness
  \/ HandleFairnessPart009
  \/ HandleShap
  \/ SendExplain
  \/ Repeat
  \/ Close

Spec == Init /\ [][Next]_vars

\* a browser opens the dashboard: nothing is mounted, and localStorage holds
\* nothing, something that is no JSON, or what an earlier visit left
DashboardInit ==
  /\ phase = "idle"
  /\ endpoint = "none"
  /\ body = EmptyBody
  /\ response = NoResponse
  /\ earlier = NoResponse
  /\ savedModels = <<>>
  /\ predictionResponse = NoResponse
  /\ page = NoPage
  /\ localStorage \in {NoItem, CorruptItem}
  /\ upload = NoUploadSection
  /\ audit = NoAudit

\* React has no effect left to run
Settled == page.mounted /\ page.effects = "none" /\ ~audit.effect

\* the page is opened: first render, with the Data Upload tab selected
Mount ==
  /\ ~page.mounted
  /\ page' = [mounted |-> TRUE, uploadedData |-> Null, isLoaded |-> FALSE,
              effects |-> "mount"]
  /\ upload' = NoUploadSection
  /\ audit' = NoAudit
  /\ UNCHANGED <<localStorage, api>>

\* the effects of the first render: the load effect, then the save effect
\* with the isLoaded and uploadedData of that render
MountEffects ==
  /\ page.mounted /\ page.effects = "mount"
  /\ page' = [page EXCEPT !.uploadedData = loadEffect(localStorage),
                          !.isLoaded = TRUE, !.effects = "save"]
  /\ localStorage' = saveEffect(FALSE, Null, localStorage)
  /\ UNCHANGED <<upload, audit, api>>

\* the save effect after a render in which uploadedData or isLoaded changed
SaveEffect ==
  /\ page.mounted /\ page.effects = "save"
  /\ localStorage' = saveEffect(page.isLoaded, page.uploadedData, localStorage)
  /\ page' = [page EXCEPT !.effects = "none"]
  /\ UNCHANGED <<upload, audit, api>>

\* the page is closed or reloaded: the state of the components is gone
Unmount ==
  /\ Settled
  /\ page' = NoPage
  /\ upload' = NoUploadSection
  /\ audit' = NoAudit
  /\ UNCHANGED <<localStorage, api>>

\* onDrop: a file is chosen, and a FileReader is started for the preview; the
\* user chooses a file when no file is being read or uploaded
onDrop ==
  /\ Settled /\ ~audit.shown
  /\ upload.previewReader = NoReader /\ upload.uploadReader = NoReader
  /\ \E text \in Files :
       upload' = [upload EXCEPT !.file = FileOf(text), !.uploadStatus = "idle",
                                !.previewReader = [state |-> "reading", text |-> text,
                                                     live |-> TRUE]]
  /\ UNCHANGED <<page, localStorage, audit, api>>

\* reader.onload of onDrop
PreviewLoaded ==
  /\ page.mounted /\ upload.previewReader.state = "reading"
  /\ LET loaded == onload[upload.previewReader.text]
     IN upload' = [upload EXCEPT
          !.previewReader = NoReader,
          !.preview = IF loaded.throws \/ ~upload.previewReader.live THEN @
                      ELSE loaded.preview]
  /\ UNCHANGED <<page, localStorage, audit, api>>

\* handleUpload, behind a button that is disabled without a file, while
\* uploading, and after a success
handleUpload ==
  /\ Settled /\ ~audit.shown
  /\ upload.file # Null /\ ~upload.uploading /\ upload.uploadStatus # "success"
  /\ upload' = [upload EXCEPT !.uploading = TRUE, !.uploadStatus = "idle",
                              !.uploadReader = [state |-> "reading", text |-> upload.file.text,
                                                  live |-> TRUE]]
  /\ UNCHANGED <<page, localStorage, audit, api>>

\* reader.onload of handleUpload: the rows are parsed and a timer is set
UploadLoaded ==
  /\ page.mounted /\ upload.uploadReader.state = "reading"
  /\ upload' = [upload EXCEPT !.uploadReader.state =
                  IF onload[upload.uploadReader.text].throws THEN "none" ELSE "timer"]
  /\ UNCHANGED <<page, localStorage, audit, api>>

\* the timer fires: setUploadStatus("success") and setUploading(false), which
\* do nothing once the section is unmounted, and onDataUploaded(...), which is
\* setUploadedData of the page; the new data is a new prop of
\* FairnessAuditSection, whose effect depends on it
UploadTimer ==
  /\ page.mounted /\ upload.uploadReader.state = "timer"
  /\ upload' = IF upload.uploadReader.live
                THEN [upload EXCEPT !.uploadReader = NoReader, !.uploadStatus = "success",
                                    !.uploading = FALSE]
                ELSE [upload EXCEPT !.uploadReader = NoReader]
  /\ page' = [page EXCEPT !.uploadedData = onload[upload.uploadReader.text].data,
                          !.effects = IF @ = "mount" THEN @ ELSE "save"]
  /\ audit' = [audit EXCEPT !.effect = audit.shown]
  /\ UNCHANGED <<localStorage, api>>

\* the Fairness tab is selected: DataUploadSection is unmounted, with its
\* readers and its timer still running, and FairnessAuditSection is mounted
\* with data = uploadedData
ShowFairness ==
  /\ Settled /\ ~audit.shown
  /\ audit' = [NoAudit EXCEPT !.shown = TRUE, !.effect = TRUE]
  /\ upload' = [NoUploadSection EXCEPT !.previewReader = detached(upload.previewReader),
                                       !.uploadReader = detached(upload.uploadReader)]
  /\ UNCHANGED <<page, localStorage, api>>

\* the Data Upload tab is selected: FairnessAuditSection is unmounted and a
\* new DataUploadSection is mounted
LeaveFairness ==
  /\ Settled /\ audit.shown
  /\ audit' = NoAudit
  /\ UNCHANGED <<page, localStorage, upload, api>>

\* analyzeFairness up to its fetch
analyzeFairness(data) ==
  IF data = Null \/ lengthOf(data) = Num(0)
  THEN [audit EXCEPT !.error = Str("No data available for fairness analysis"),
                     !.effect = FALSE]
  ELSE [audit EXCEPT !.loading = TRUE, !.error = Null, !.fetching = TRUE,
                     !.effect = FALSE]

\* useEffect(..., [data]): auto-analyze when data is available
AuditEffect ==
  /\ page.mounted /\ audit.shown /\ audit.effect
  /\ page.effects # "mount"
  /\ audit' = IF /\ page.uploadedData # Null
                 /\ GT(lengthOf(page.uploadedData), 0)
                 /\ audit.fairnessData = Null
                 /\ ~audit.loading
              THEN analyzeFairness(page.uploadedData)
              ELSE [audit EXCEPT !.effect = FALSE]
  /\ UNCHANGED <<page, localStorage, upload, api>>

\* the Run Fairness Analysis button of the idle prompt
RunFairnessAnalysis ==
  /\ Settled /\ audit.shown
  /\ ~audit.loading /\ audit.error = Null /\ audit.fairnessData = Null
  /\ ~(page.uploadedData = Null \/ lengthOf(page.uploadedData) = Num(0))
  /\ audit' = analyzeFairness(page.uploadedData)
  /\ UNCHANGED <<page, localStorage, upload, api>>

\* the fetch of analyzeFairness is answered by either fairness handler
FairnessFetched ==
  /\ page.mounted /\ audit.shown /\ audit.fetching
  /\ \E ts \in Times, revised \in BOOLEAN :
       LET result == IF revised THEN fairnessPOST_part009(analysisBody(page.uploadedData), ts)
                     ELSE fairnessPOST(analysisBody(page.uploadedData), ts)
       IN audit' = IF result.status # 200
                   THEN [audit EXCEPT !.error = Str(result.error), !.loading = FALSE,
                                      !.fetching = FALSE]
                   ELSE [audit EXCEPT !.fairnessData = result.fairness, !.loading = FALSE,
                                      !.fetching = FALSE]
  /\ UNCHANGED <<page, localStorage, upload, api>>

DashboardNext ==
  \/ Mount
  \/ MountEffects
  \/ SaveEffect
  \/ Unmount
  \/ onDrop
  \/ PreviewLoaded
  \/ handleUpload
  \/ UploadLoaded
  \/ UploadTimer
  \/ ShowFairness
  \/ LeaveFairness
  \/ AuditEffect
  \/ RunFairnessAnalysis
  \/ FairnessFetched

\* what the browser does by itself happens eventually; what the user does
\* (opening and closing the page, choosing a file, pressing a button,
\* selecting a tab) need not happen
DashboardSpec ==
  /\ DashboardInit
  /\ [][DashboardNext]_vars
  /\ WF_vars(MountEffects)
  /\ WF_vars(SaveEffect)
  /\ WF_vars(PreviewLoaded)
  /\ WF_vars(UploadLoaded)
  /\ WF_vars(UploadTimer)
  /\ WF_vars(AuditEffect)
  /\ WF_vars(FairnessFetched)

(***************************************************************************)
(* Properties.                                                              *)
(***************************************************************************)
Done(e) == phase = "done" /\ endpoint = e
Accepted(e) == Done(e) /\ response.status = 200
Supplied(v) == v.t # "undefined"

\* C1: a parseable predict request is answered 400 'Missing required fields:
\* creditScore, income, loanAmount' if and only if one of the three fields is
\* absent from its features, and 200 with a prediction when all three are supplied.
C1_MissingIffAbsent ==
  Done("predict") /\ ~Throws(body) =>
    LET features == featuresOf(body)
        absent == \/ ~Supplied(features.creditScore)
                  \/ ~Supplied(features.income)
                  \/ ~Supplied(features.loanAmount)
    IN /\ response.status = 400 <=> absent
       /\ response.status = 200 <=> ~absent
       /\ response.status = 400 =>
            response.error = "Missing required fields: creditScore, income, loanAmount"

\* C2: every accepted predict request returns a probability in [0.05, 0.95] and
\* riskScore = 100 * (1 - probability), hence in [5, 95], whatever the inputs.
C2_ProbabilityClamped ==
  Accepted("predict") =>
    /\ response.prediction.probability \in 5..95
    /\ response.prediction.riskScore = 100 - response.prediction.probability
    /\ response.prediction.riskScore \in 5..95

\* an accepted request whose raw score, with MaxDerog derogatory marks, lies
\* below the floor and is answered with probability 0.05
C2_Witness ==
  /\ Accepted("predict")
  /\ featuresOf(body).derogatory = Num(MaxDerog)
  /\ rawProbability(featuresOf(body)) < 5
  /\ response.prediction.probability = 5
  /\ response.prediction.riskScore = 95

\* C3: two predict requests with identical features return the same
\* probability, approved flag, riskScore and reasoning list.
C3_PredictDeterministic ==
  Accepted("predict") /\ earlier.status = 200 =>
    /\ response.prediction.probability = earlier.prediction.probability
    /\ response.prediction.approved = earlier.prediction.approved
    /\ response.prediction.riskScore = earlier.prediction.riskScore
    /\ response.prediction.reasoning = earlier.prediction.reasoning

\* the same features answered twice, with different Math.random() draws
C3_Witness ==
  /\ Accepted("predict")
  /\ earlier.status = 200
  /\ earlier.prediction.confidence # response.prediction.confidence
  /\ Len(response.prediction.reasoning) > 0

\* a response without its timestamps and time-derived model id
Untimed(e, res) ==
  IF res.status # 200 THEN res
  ELSE CASE e = "predict" -> [res EXCEPT !.prediction.timestamp = 0]
         [] e = "train" -> [res EXCEPT !.model.modelId = 0, !.model.trainedAt = 0]
         [] e \in {"fairness", "fairness_part009"} -> [res EXCEPT !.timestamp = 0]
         [] OTHER -> res

\* ... and without the fields drawn from Math.random()
Unrandomized(e, res) ==
  IF res.status # 200 THEN res
  ELSE CASE e = "predict" -> [res EXCEPT !.prediction.confidence = 0]
         [] e = "train" -> [res EXCEPT !.model.metrics = 0]
         [] OTHER -> res

Repeated2 == phase = "done" /\ earlier.status # 0

\* C4 as stated: a request sent twice to any endpoint gets the same payload
\* both times in every field but the timestamps and the model id.
C4_IdenticalPayloads ==
  Repeated2 =>
    /\ response.status = earlier.status
    /\ Untimed(endpoint, response) = Untimed(endpoint, earlier)

\* C4 amended: ... in every field but the timestamps, the model id and the
\* fields drawn from Math.random() (predict's confidence, train's metrics).
C4_IdenticalButRandom ==
  Repeated2 =>
    /\ response.status = earlier.status
    /\ Unrandomized(endpoint, Untimed(endpoint, response))
         = Unrandomized(endpoint, Untimed(endpoint, earlier))

\* a train request answered twice with different simulated metrics
C4_Witness ==
  /\ Accepted("train")
  /\ earlier.status = 200
  /\ earlier.model.metrics # response.model.metrics
  /\ earlier.model.modelId # response.model.modelId
  /\ earlier.model.classDistribution = response.model.classDistribution

\* the answers a handler can give to a body on a server that has served nothing
FreshAnswers(e, b) ==
  CASE e = "predict" -> {predictPOST(b, rnd, ts) : rnd \in RandomStreams, ts \in Times}
    [] e = "train" -> {trainPOST(b, rnd, ts) : rnd \in RandomStreams, ts \in Times}
    [] e = "fairness" -> {fairnessPOST(b, ts) : ts \in Times}
    [] e = "fairness_part009" -> {fairnessPOST_part009(b, ts) : ts \in Times}
    [] OTHER -> {shapPOST(b)}

\* C5: the handlers are stateless: no request leaves anything behind on the
\* server (a train request stores no model), and a request is answered after
\* any earlier requests as it would be were it the first.
C5_Stateless ==
  /\ savedModels = <<>>
  /\ phase = "done" => response \in FreshAnswers(endpoint, body)

\* a train request accepted after an earlier accepted train request
C5_Witness ==
  /\ Accepted("train")
  /\ earlier.status = 200
  /\ earlier.model.datasetSize > 0
  /\ savedModels = <<>>

FairnessEndpoints == {"fairness", "fairness_part009"}
AcceptedFairness == phase = "done" /\ endpoint \in FairnessEndpoints /\ response.status = 200

\* the approval rates reported in groupMetrics, their highest and their lowest
ReportedRates ==
  {response.fairness.groupMetrics[k].approvalRate : k \in DOMAIN response.fairness.groupMetrics}
HighestRate == CHOOSE r \in ReportedRates : \A q \in ReportedRates : FLE(q, r)
LowestRate == CHOOSE r \in ReportedRates : \A q \in ReportedRates : FLE(r, q)

\* C6: for every accepted fairness request demographicParityDifference is the
\* highest group approval rate minus the lowest, lies in [0, 1], and
\* complianceStatus.demographicParity is true exactly when it is at most 0.1.
C6_DemographicParity ==
  AcceptedFairness =>
    LET d == response.fairness.metrics.demographicParityDifference IN
    /\ FEQ(d, FSub(HighestRate, LowestRate))
    /\ FLE(Zero, d) /\ FLE(d, One)
    /\ response.fairness.complianceStatus["demographicParity"] <=> FLE(d, Frac(1, 10))

\* two groups whose approval rates differ, by no more than 0.1
C6_Witness ==
  /\ AcceptedFairness
  /\ FLT(Zero, response.fairness.metrics.demographicParityDifference)
  /\ FLE(response.fairness.metrics.demographicParityDifference, Frac(1, 10))
  /\ response.fairness.complianceStatus["demographicParity"]

\* di * highest = lowest
IsRatioOfRates(di) ==
  di.num * HighestRate.num * LowestRate.den = LowestRate.num * di.den * HighestRate.den

RECURSIVE SumCounts(_, _)
SumCounts(groupMetrics, ks) ==
  IF ks = {} THEN 0
  ELSE LET k == CHOOSE x \in ks : TRUE
       IN groupMetrics[k].totalCount + SumCounts(groupMetrics, ks \ {k})
TotalCounted ==
  SumCounts(response.fairness.groupMetrics, DOMAIN response.fairness.groupMetrics)

\* C8 as stated: every row is counted in exactly one entry of groupMetrics, so
\* the totalCount values sum to data.length.
C8_Partition ==
  AcceptedFairness => TotalCounted = Len(body.data.rows)

\* the group value of row i as the handler reads it
GroupValueAt(i) ==
  LET val == Get(body.data.rows[i], response.fairness.protectedAttribute)
  IN IF endpoint = "fairness" THEN val
     ELSE IF val.t = "string" THEN (IF Trim(val.s) = "" THEN Null ELSE Str(Trim(val.s)))
     ELSE val
BlankGroup(v) == endpoint = "fairness_part009" /\ v.t \in {"null", "undefined"}
FirstAt(v) ==
  CHOOSE i \in 1..Len(body.data.rows) :
    GroupValueAt(i) = v /\ \A j \in 1..(i - 1) : GroupValueAt(j) # v
\* a group found later has the same string form: its entry replaces this one
Shadowed(v) ==
  \E j \in 1..Len(body.data.rows) :
    /\ GroupValueAt(j) # v
    /\ ~BlankGroup(GroupValueAt(j))
    /\ String(GroupValueAt(j)) = String(v)
    /\ FirstAt(GroupValueAt(j)) > FirstAt(v)
CountedRows ==
  {i \in 1..Len(body.data.rows) :
     ~BlankGroup(GroupValueAt(i)) /\ ~Shadowed(GroupValueAt(i))}

\* C8 amended: the totalCount values sum to the number of rows counted, which
\* is data.length less the rows left out: in the revised handler the rows whose
\* protected-attribute cell is missing, null, empty or blank, and in both
\* handlers the rows of a group whose string form is that of a group found
\* later (1 and '1'); no entry is empty.
C8_CountedRows ==
  AcceptedFairness =>
    /\ TotalCounted = Cardinality(CountedRows)
    /\ TotalCounted <= Len(body.data.rows)
    /\ \A k \in DOMAIN response.fairness.groupMetrics :
         response.fairness.groupMetrics[k].totalCount > 0

\* the revised handler leaves a row with a blank cell out of every group
C8_Witness ==
  /\ Accepted("fairness_part009")
  /\ \E i \in 1..Len(body.data.rows) : BlankGroup(GroupValueAt(i))
  /\ TotalCounted < Len(body.data.rows)

AcceptedIndividual == Accepted("shap") /\ response.type = "individual"

\* the constants a feature's contribution is looked up from
ContributionTable(feature) ==
  CASE feature = "creditScore" -> {22, 15, 8, 2, -12}
    [] feature = "income" -> {15, 10, 5, 0, -8}
    [] feature = "loanAmount" -> {8, 4, 0, -5, -10}
    [] feature = "debtToIncome" -> {10, 5, -3, -12}
    [] feature = "employmentLength" -> {8, 6, 3, 0, -4}
    [] feature = "age" -> {6, 3, 2, -3, -2}
    [] feature = "homeOwnership" -> {5, 2, 0}
    [] OTHER -> {2, -10}

\* C9 as stated: each of the 8 contributions of an individual explanation is
\* one of a fixed finite set of constants for its feature.
C9_FixedConstants ==
  AcceptedIndividual =>
    \A i \in 1..Len(response.shapValues) :
      response.shapValues[i].contribution
        \in ContributionTable(response.shapValues[i].feature)

\* C9 amended: the contributions of the seven features other than derogatory
\* are looked up from fixed constants; the contribution of derogatory is 0.02
\* when there is no derogatory mark and -0.10 times the number of marks
\* otherwise, which is no fixed set.
C9_LookupExceptDerogatory ==
  AcceptedIndividual =>
    \A i \in 1..Len(response.shapValues) :
      LET sv == response.shapValues[i]
          marks == body.features.derogatory
      IN IF sv.feature # "derogatory"
         THEN sv.contribution \in ContributionTable(sv.feature)
         ELSE sv.contribution =
                (IF marks.t = "number" /\ marks.n > 0 THEN -10 * marks.n ELSE 2)

\* an explanation for MaxDerog derogatory marks, whose contribution is off the table
C9_Witness ==
  /\ AcceptedIndividual
  /\ body.features.derogatory = Num(MaxDerog)
  /\ \E i \in 1..Len(response.shapValues) :
       /\ response.shapValues[i].feature = "derogatory"
       /\ response.shapValues[i].contribution = -10 * MaxDerog
       /\ response.shapValues[i].contribution \notin ContributionTable("derogatory")

DoneFairness == phase = "done" /\ endpoint \in FairnessEndpoints
OnlyError(res, code, message) ==
  res.status = code /\ res.error = message /\ DOMAIN res = {"status", "error"}

\* the distinct values the requested attribute takes over the rows
RawValues ==
  {Get(body.data.rows[i], protectedAttributeOf(body)) : i \in 1..Len(body.data.rows)}

\* C10 as stated, for requests whose body is a JSON object and whose rows are
\* objects: 400 'Invalid data provided' when data is missing, no array or
\* empty; 400 'Need at least 2 groups' when the protected attribute takes fewer
\* than 2 distinct values; 200 with a fairness object for every other request.
C10_FourHundredCases ==
  DoneFairness /\ ~Throws(body) /\ ~HasNullRow(body.data.rows) =>
    IF invalidData(body.data)
    THEN OnlyError(response, 400, "Invalid data provided")
    ELSE IF Cardinality(RawValues) < 2
    THEN OnlyError(response, 400, "Need at least 2 groups for fairness analysis")
    ELSE response.status = 200 /\ "fairness" \in DOMAIN response

\* the column the revised handler analyses and the groups it finds in it
RevisedColumn == actualProtectedAttrOf(body.data.rows[1], protectedAttributeOf(body))
RevisedGroups ==
  {v \in {normalizedGroup(Get(body.data.rows[i], RevisedColumn)) :
            i \in 1..Len(body.data.rows)} : v.t \notin {"null", "undefined"}}

\* C10 amended: both handlers answer 400 'Invalid data provided' when data is
\* missing, no array or empty.  route.ts answers 400 'Need at least 2 groups'
\* when the attribute takes fewer than 2 distinct values.  The revised handler
\* answers 400 when neither the requested attribute nor a fallback column is a
\* key of the first row, and 400 'Need at least 2 groups' when the column it
\* found has fewer than 2 distinct non-blank trimmed values.  A request whose
\* handling throws (no JSON, a null body, a null row) gets 500 'Fairness
\* analysis failed'.  Every other request gets 200 with a fairness object, and
\* no 400 or 500 carries metrics.
C10_StatusCases ==
  DoneFairness =>
    IF Throws(body) THEN OnlyError(response, 500, "Fairness analysis failed")
    ELSE IF invalidData(body.data) THEN OnlyError(response, 400, "Invalid data provided")
    ELSE IF endpoint = "fairness"
    THEN (IF HasNullRow(body.data.rows)
          THEN OnlyError(response, 500, "Fairness analysis failed")
          ELSE IF Cardinality(RawValues) < 2
          THEN OnlyError(response, 400, "Need at least 2 groups for fairness analysis")
          ELSE response.status = 200 /\ "fairness" \in DOMAIN response)
    ELSE (IF body.data.rows[1].isNull
          THEN OnlyError(response, 500, "Fairness analysis failed")
          ELSE IF RevisedColumn = NoColumn
          THEN OnlyError(response, 400, "Protected attribute not found in data")
          ELSE IF HasNullRow(body.data.rows)
          THEN OnlyError(response, 500, "Fairness analysis failed")
          ELSE IF Cardinality(RevisedGroups) < 2
          THEN OnlyError(response, 400, "Need at least 2 groups for fairness analysis")
          ELSE response.status = 200 /\ "fairness" \in DOMAIN response)

\* the revised handler refuses a dataset whose attribute has two distinct values
C10_Witness ==
  /\ Done("fairness_part009")
  /\ ~Throws(body) /\ ~invalidData(body.data) /\ ~HasNullRow(body.data.rows)
  /\ Cardinality(RawValues) >= 2
  /\ OnlyError(response, 400, "Need at least 2 groups for fairness analysis")

\* the generic message of an endpoint's catch block
GenericError(e) ==
  CASE e = "predict" -> "Prediction failed"
    [] e = "train" -> "Model training failed"
    [] e = "shap" -> "Explanation generation failed"
    [] OTHER -> "Fairness analysis failed"

\* handling the request raises an exception: the body is no JSON, the body is
\* null, or the handler reaches a null row of data
Raises(e, b) ==
  \/ Throws(b)
  \/ /\ e \in {"train", "fairness"}
     /\ ~invalidData(b.data)
     /\ HasNullRow(b.data.rows)
  \/ /\ e = "fairness_part009"
     /\ ~invalidData(b.data)
     /\ \/ b.data.rows[1].isNull
        \/ /\ actualProtectedAttrOf(b.data.rows[1], protectedAttributeOf(b)) # NoColumn
           /\ HasNullRow(b.data.rows)

\* C11: every request gets one response, of status 200, 400 or 500; a request
\* whose handling raises an exception gets 500 with the endpoint's generic
\* error message and nothing else, and a 200 always carries a complete result.
C11_ExceptionsAnswered500 ==
  phase = "done" =>
    /\ response.status \in {200, 400, 500}
    /\ Raises(endpoint, body) <=> response.status = 500
    /\ response.status = 500 => OnlyError(response, 500, GenericError(endpoint))
    /\ response.status = 400 => DOMAIN response = {"status", "error"}
    /\ response.status = 200 =>
         /\ "error" \notin DOMAIN response
         /\ response.success
         /\ CASE endpoint = "predict" -> "prediction" \in DOMAIN response
              [] endpoint = "train" -> "model" \in DOMAIN response
              [] endpoint = "shap" ->
                   {"shapValues", "featureImportance"} \cap DOMAIN response # {}
              [] OTHER -> "fairness" \in DOMAIN response

\* a train request whose second row is null: the first row was already mapped
\* when the exception was raised
C11_Witness ==
  /\ Done("train")
  /\ Len(body.data.rows) >= 2
  /\ ~body.data.rows[1].isNull
  /\ body.data.rows[2].isNull
  /\ OnlyError(response, 500, "Model training failed")

\* a fraction in lowest terms
RECURSIVE Gcd(_, _)
Gcd(a, b) == IF b = 0 THEN a ELSE Gcd(b, a % b)
Lowest(x) ==
  LET g == Gcd(Abs(x.num), Abs(x.den))
  IN IF g = 0 THEN x ELSE Frac(x.num \div g, x.den \div g)

\* the three sub-scores, read off the reported metrics
SubScores ==
  LET m == response.fairness.metrics
      hundred == Frac(100, 1)
      di == Lowest(m.disparateImpact)
  IN [dp |-> Lowest(FMax(Zero, FSub(hundred,
                 FScale(FAbs(Lowest(m.demographicParityDifference)), 100)))),
      eo |-> Lowest(FMax(Zero, FSub(hundred,
                 FScale(FAbs(Lowest(m.equalOpportunityDifference)), 100)))),
      di |-> IF FLE(Frac(4, 5), di) /\ FLE(di, Frac(5, 4))
             THEN hundred
             ELSE Lowest(FMax(Zero, FSub(hundred, FScale(FAbs(FSub(One, di)), 100))))]
InScoreRange(x) == FLE(Zero, x) /\ FLE(x, Frac(100, 1))

\* C12: for every accepted fairness request overallScore lies in [0, 100] and
\* is the mean of the demographic-parity, equal-opportunity and
\* disparate-impact sub-scores, each of which lies in [0, 100].
C12_OverallScoreIsMean ==
  AcceptedFairness =>
    /\ InScoreRange(SubScores.dp) /\ InScoreRange(SubScores.eo) /\ InScoreRange(SubScores.di)
    /\ InScoreRange(Lowest(response.fairness.overallScore))
    /\ FEQ(FScale(Lowest(response.fairness.overallScore), 3),
           Lowest(FAdd(Lowest(FAdd(SubScores.dp, SubScores.eo)), SubScores.di)))

\* three sub-scores that differ from one another, none of them 0 or 100
C12_Witness ==
  /\ AcceptedFairness
  /\ FLT(Zero, SubScores.dp) /\ FLT(SubScores.dp, Frac(100, 1))
  /\ FLT(Zero, SubScores.di) /\ FLT(SubScores.di, SubScores.dp)
  /\ FLT(SubScores.di, Lowest(response.fairness.overallScore))
  /\ FLT(Lowest(response.fairness.overallScore), Frac(100, 1))

\* the explanation requested in step 2 of the documented flow has been answered
Explained ==
  /\ Accepted("shap")
  /\ predictionResponse.status = 200
  /\ response.type = "individual"

\* C13: in the predict-then-explain flow the explanation's finalPrediction is
\* the probability predict returned, and its decision ('Approved' or
\* 'Rejected') agrees with predict's approved flag.
C13_ExplanationAgrees ==
  Explained =>
    /\ response.finalPrediction = predictionResponse.prediction.probability
    /\ response.interpretation.decision = "Approved"
         <=> predictionResponse.prediction.approved

\* the values of a column in the rows of an uploaded dataset
columnValues(data, column) ==
  {data.rows[i].values[column] : i \in {j \in 1..Len(data.rows) : column \in DOMAIN data.rows[j].values}}

\* an uploaded dataset with at least one row and two genders
TwoGenders(data) ==
  /\ data # Null
  /\ data.rowCount >= 1
  /\ Cardinality(columnValues(data, "gender")) >= 2

\* what FairnessAuditSection renders
ShowsLoading == audit.shown /\ audit.loading
ShowsError == audit.shown /\ ~audit.loading /\ audit.error # Null
ShowsIdlePrompt ==
  audit.shown /\ ~audit.loading /\ audit.error = Null /\ audit.fairnessData = Null
ShowsMetrics ==
  audit.shown /\ ~audit.loading /\ audit.error = Null /\ audit.fairnessData # Null

\* C14: once a dataset with at least one row and two genders has been
\* uploaded and the Fairness section is shown with it, the section comes to
\* display fairness metrics (or the user has left the section).
C14_UploadLeadsToMetrics ==
  (Settled /\ audit.shown /\ TwoGenders(page.uploadedData)) ~> (ShowsMetrics \/ ~audit.shown)


\* mounting has completed and no effect is left to run
Loaded == page.mounted /\ page.isLoaded /\ page.effects = "none"

\* localStorage mirrors uploadedData
Mirrored ==
  IF page.uploadedData = Null THEN localStorage = NoItem
  ELSE /\ localStorage = JSONstringify(page.uploadedData)
       /\ JSONparse(localStorage) = page.uploadedData

\* the load effect has restored what localStorage holds
Restored ==
  /\ localStorage.present /\ localStorage.valid
  /\ page.uploadedData = JSONparse(localStorage)

Names(seq) == {seq[i] : i \in 1..Len(seq)}

\* a dataset whose parts agree with each other
SelfConsistent(data) ==
  /\ data.rowCount = Len(data.rows)
  /\ data.columnCount = Len(data.headers)
  /\ \A i \in 1..Len(data.rows) :
       /\ Names(data.rows[i].keys) = Names(data.headers)
       /\ DOMAIN data.rows[i].values = Names(data.headers)
  /\ Len(data.preview) = (IF data.rowCount < 5 THEN data.rowCount ELSE 5)
  /\ \A i \in 1..Len(data.preview) : data.preview[i] = data.rows[i]

\* the upload of the chosen file has completed in the section now shown
UploadCompleted ==
  page.mounted /\ upload.uploadStatus = "success" /\ upload.file # Null

LabelledApproved ==
  {i \in 1..Len(body.data.rows) :
     IF Supplied(Get(body.data.rows[i], "loan_status"))
     THEN Get(body.data.rows[i], "loan_status") = Num(1)
     ELSE Get(body.data.rows[i], "approved") = Num(1)}

\* C17: for every accepted train request classDistribution.approved is the
\* number of rows whose loan_status is 1 (approved is read only when a row has
\* no loan_status), approved + rejected = datasetSize = data.length, and
\* approvalRate = approved / datasetSize.
C17_ClassDistribution ==
  Accepted("train") =>
    LET c == response.model.classDistribution
    IN /\ c.approved = Cardinality(LabelledApproved)
       /\ c.approved + c.rejected = response.model.datasetSize
       /\ response.model.datasetSize = Len(body.data.rows)
       /\ FEQ(c.approvalRate, Frac(c.approved, response.model.datasetSize))


\* C18: predict reports approved = true exactly when the probability it
\* reports is above 0.5, and an individual explanation reports the decision
\* 'Approved' exactly when its finalPrediction is above 0.5; at exactly 0.5
\* the answer is a rejection.
C18_ApprovedAboveHalf ==
  /\ Accepted("predict") =>
       (response.prediction.approved <=> response.prediction.probability > 50)
  /\ AcceptedIndividual =>
       /\ response.interpretation.decision \in {"Approved", "Rejected"}
       /\ (response.interpretation.decision = "Approved" <=> response.finalPrediction > 50)

\* a prediction of exactly 0.5 has been answered as a rejection
C18_Witness ==
  /\ Accepted("predict")
  /\ response.prediction.probability = 50
  /\ ~response.prediction.approved


FeatureNames ==
  {"creditScore", "income", "loanAmount", "debtToIncome", "employmentLength", "age",
   "homeOwnership", "derogatory"}

\* C19: an individual explanation has eight shapValues, one for each feature,
\* in the order of non-increasing absolute contribution, and its
\* waterfallData is 'Base Value', then the entries of shapValues in their
\* order, then 'Final Prediction'.
C19_SortedShapValues ==
  AcceptedIndividual =>
    LET sv == response.shapValues
        wf == response.waterfallData
    IN /\ Len(sv) = 8
       /\ {sv[i].feature : i \in 1..Len(sv)} = FeatureNames
       /\ \A i \in 1..(Len(sv) - 1) : Abs(sv[i].contribution) >= Abs(sv[i + 1].contribution)
       /\ Len(wf) = Len(sv) + 2
       /\ wf[1] = [feature |-> "Base Value", value |-> response.baseValue]
       /\ wf[Len(wf)] = [feature |-> "Final Prediction", value |-> response.finalPrediction]
       /\ \A i \in 1..Len(sv) :
            wf[i + 1] = [feature |-> sv[i].displayName, value |-> sv[i].contribution]

\* an explanation whose largest contribution is not that of the feature
\* pushed first
C19_Witness ==
  /\ AcceptedIndividual
  /\ response.shapValues[1].feature # "creditScore"
  /\ Abs(response.shapValues[1].contribution) > Abs(response.shapValues[8].contribution)


\* every group is reported with the same approval rate
EqualRates == \A q \in ReportedRates : \A r \in ReportedRates : FEQ(q, r)

DisparateImpactDetected ==
  \E i \in 1..Len(response.fairness.recommendations) :
    response.fairness.recommendations[i] =
      "Disparate impact detected: Approval rate ratio is below 80% threshold"

\* C20: when every group has the same approval rate, also when no row of any
\* group is approved, complianceStatus['80PercentRule'] is true and no
\* recommendation reports a disparate impact.
C20_EqualRatesPass ==
  (AcceptedFairness /\ EqualRates) =>
    /\ response.fairness.complianceStatus["80PercentRule"]
    /\ ~DisparateImpactDetected


\* the fields of the analysis of a protected attribute
AnalysisFields == {"groups", "demographicParity", "equalOpportunity", "disparateImpact"}

\* C21: for every accepted fairness request biasAnalysis has an entry for the
\* protected attribute reported, holding the groups of that attribute and its
\* demographicParity, equalOpportunity and disparateImpact, also when the
\* attribute is 'age'.
C21_BiasAnalysisOfAttribute ==
  AcceptedFairness =>
    LET fairness == response.fairness
        attribute == fairness.protectedAttribute
    IN /\ attribute \in DOMAIN fairness.biasAnalysis
       /\ AnalysisFields \subseteq DOMAIN fairness.biasAnalysis[attribute]
       /\ fairness.biasAnalysis[attribute].groups = fairness.groupMetrics


====
